---- MODULE Spec2Model ----
(***************************************************************************)
(* Note lifecycle and summarization orchestration of quick-note-ai-        *)
(* summarizer: the useNotes hook (the in-memory note collection and its    *)
(* create / update / delete / summarize operations against the remote      *)
(* store) and the two edge functions summarize-note and summarize-notes    *)
(* (the calls to the external completion endpoint).                        *)
(*                                                                         *)
(* Every await of the source is a suspension point: an operation is an     *)
(* entry of ops whose phase says which response it is waiting for, and one *)
(* action runs the code between two awaits.                                *)
(***************************************************************************)
EXTENDS Integers, Sequences, FiniteSets, TLC

\* ------------------------------------------------------------------ bounds
\* operations that may be pending at the same time
MaxOps == 2
\* operations started and session changes in one behaviour
MaxCalls == 2
\* items of a batch request sent straight to the summarize-notes function
MaxBatch == 3

\* ------------------------------------------------------------------ values
None == "none"
Users == {"u1", "u2"}

\* text is a sequence of chunks of characters
Str(c) == <<c>>
\* an optional value: <<>> is absent, <<v>> is present
Absent == <<>>
Some(v) == <<v>>

\* what a caller may type: (title, content, fileName?)
NoteInputs ==
  { [title |-> Str("A"), content |-> Str("x"), file |-> Absent],
    [title |-> Str("B"), content |-> Str("y"), file |-> Some(Str("f"))] }

\* what a caller may type into an update: (title, content)
Edits == { [title |-> Str("T"), content |-> Str("w")] }

\* what the completion endpoint may answer as message content
Summaries == {Str("s"), Str("t")}

Slots == 1..MaxOps

VARIABLES
  user,     \* useAuth().user: a user id or None
  notes,    \* useState<Note[]>: the in-memory collection
  loading,  \* useState(true): the loading flag
  ret,      \* what the operation that resolved last returned to its caller
  ops,      \* the pending operations, one per slot
  db,       \* the remote store: the set of persisted notes
  clock,    \* the last timestamp handed out
  calls,    \* operations started and session changes so far
  nvidiApiKey,   \* Deno.env.get('NVIDIA_API_KEY') is set
  lag,      \* the client's clock is behind the store's
  edge,     \* the edge function invocation serving each slot
  llm,      \* completion requests in flight at the external endpoint
  selectedNote,  \* useState<Note | null>(null) of the page: the open note
  page      \* the page's handler awaiting each slot, with the render it closed over

vars == <<user, notes, loading, ret, ops, db, clock, calls, nvidiApiKey, lag, edge, llm,
          selectedNote, page>>

Idle == [kind |-> "idle"]
\* no handler of the page is waiting for the slot
NoHandler == [kind |-> "none"]
NoEdge == [st |-> "idle"]

\* ------------------------------------------------------------------ helpers
\* a replacement that moves the entry to the front
ReplaceByIdFront(list, id, data) ==
  <<data>> \o SelectSeq(list, LAMBDA n : n.id # id)

\* Array.prototype.map(note => note.id === id ? data : note)
ReplaceById(list, id, data) ==
  [k \in 1..Len(list) |-> IF list[k].id = id THEN data ELSE list[k]]

\* a filter with its test inverted
RemoveByIdInverted(list, id) == SelectSeq(list, LAMBDA n : n.id = id)

\* Array.prototype.filter(note => note.id !== id)
RemoveById(list, id) == SelectSeq(list, LAMBDA n : n.id # id)

\* [...prev, data]
PrependLast(data, list) == list \o <<data>>

\* [data, ...prev]
Prepend(data, list) == <<data>> \o list

\* .order('created_at', { ascending: false })
RECURSIVE OrderDesc(_)
OrderDesc(S) ==
  IF S = {} THEN <<>>
  ELSE LET m == CHOOSE n \in S : \A o \in S : o.created_at <= n.created_at
       IN  <<m>> \o OrderDesc(S \ {m})

\* the rows the store lets uid see (per-record ownership)
RowsOf(uid) == {n \in db : n.user_id = uid}

\* the rows an update or delete by uid with .eq('id', id) touches
Matching(uid, id) == {n \in RowsOf(uid) : n.id = id}

FreeSlots == {i \in Slots : ops[i].kind = "idle" /\ edge[i].st = "idle"}
\* the caller gets the lowest free slot
NewSlot == CHOOSE i \in FreeSlots : \A j \in FreeSlots : i <= j
CanStart == FreeSlots # {} /\ calls < MaxCalls

\* operations that run without looking at the session
SignedOutIgnored == FALSE

\* if (!user) return ...
SignedOut == user = None

\* the ids a caller may name: every id the store has assigned, and one it never did
Ids == 0..clock

Returned(kind, val) == [kind |-> kind, val |-> val]

\* an operation that sends its store request again when the store refused it
SettledOrRetry(op) ==
  IF op.kind \in {"fetch", "create", "update", "delete", "sumOne"}
       /\ op.phase = "reply" /\ op.res # "ok"
    THEN [op EXCEPT !.phase = "store", !.res = "-"]
    ELSE [kind |-> "idle"]

\* the async function returns: whatever the answer was, the call is over
Settled(op) == Idle

\* new Date(): what the client's clock reads, in step with the store's clock or
\* behind every time the store has handed out
DateNow == IF lag THEN 0 ELSE clock + 1

\* the store's clock once the time t has passed
Later(t) == IF t > clock THEN t ELSE clock

\* ------------------------------------------------------------------ session
\* fetchNotes up to its await: the select is on its way to the store
fetchNotesCall(uid) ==
  [kind |-> "fetch", phase |-> "store", uid |-> uid, res |-> "-", data |-> <<>>]

\* useEffect(() => {...}, [user]) run for a new value of user
useEffectUser(u) ==
  /\ u # user
  /\ calls < MaxCalls
  /\ calls' = calls + 1
  /\ user' = u
  /\ IF u # None
       THEN /\ FreeSlots # {}
            /\ ops' = [ops EXCEPT ![NewSlot] = fetchNotesCall(u)]
            /\ UNCHANGED <<notes, loading>>
       ELSE /\ notes' = <<>>
            /\ loading' = FALSE
            /\ UNCHANGED ops
  /\ UNCHANGED <<ret, db, clock, nvidiApiKey, lag, selectedNote, page, edge, llm>>

\* refetch: fetchNotes called by a caller of the hook
refetch ==
  /\ IF SignedOut
       THEN /\ ret' = Returned("fetch", Absent)
            /\ UNCHANGED <<ops, calls>>
       ELSE /\ CanStart
            /\ calls' = calls + 1
            /\ ops' = [ops EXCEPT ![NewSlot] = fetchNotesCall(user)]
            /\ UNCHANGED ret
  /\ UNCHANGED <<user, notes, loading, db, clock, nvidiApiKey, lag, selectedNote, page, edge, llm>>

\* the store answers the select (or the request fails)
StoreSelect(i) ==
  /\ ops[i].kind = "fetch" /\ ops[i].phase = "store"
  /\ \E res \in {"ok", "error", "throw"} :
       ops' = [ops EXCEPT ![i].phase = "reply", ![i].res = res,
                 ![i].data = IF res = "ok" THEN OrderDesc(RowsOf(ops[i].uid))
                             ELSE <<>>]
  /\ UNCHANGED <<user, notes, loading, ret, db, clock, calls, nvidiApiKey, lag, selectedNote, page, edge, llm>>

\* a fetch that stores whatever came back, also after a failure
AfterFetchAlways(list, res, data) == data

\* setNotes(data || []) on success only
AfterFetch(list, res, data) == IF res = "ok" THEN data ELSE list

\* fetchNotes after its await
fetchNotesResolve(i) ==
  /\ ops[i].kind = "fetch" /\ ops[i].phase = "reply"
  /\ notes' = AfterFetch(notes, ops[i].res, ops[i].data)
  /\ loading' = FALSE
  /\ ret' = Returned("fetch", Absent)
  /\ ops' = [ops EXCEPT ![i] = Settled(ops[i])]
  /\ UNCHANGED <<user, db, clock, calls, nvidiApiKey, lag, selectedNote, page, edge, llm>>

\* ------------------------------------------------------------------ create
createNote(in) ==
  /\ IF SignedOut
       THEN /\ ret' = Returned("create", Absent)
            /\ UNCHANGED <<ops, calls>>
       ELSE /\ CanStart
            /\ calls' = calls + 1
            /\ ops' = [ops EXCEPT ![NewSlot] =
                 [kind |-> "create", phase |-> "store", uid |-> user,
                  title |-> in.title, content |-> in.content, file |-> in.file,
                  res |-> "-", data |-> Absent]]
            /\ UNCHANGED ret
  /\ UNCHANGED <<user, notes, loading, db, clock, nvidiApiKey, lag, selectedNote, page, edge, llm>>

\* the row the store makes of an insert: it assigns id and both timestamps
NewRow(uid, title, content, file, t) ==
  [id |-> t, user_id |-> uid, title |-> title, content |-> content,
   summary |-> Absent, file_name |-> file, created_at |-> t, updated_at |-> t]

StoreInsert(i) ==
  /\ ops[i].kind = "create" /\ ops[i].phase = "store"
  /\ \/ LET row == NewRow(ops[i].uid, ops[i].title, ops[i].content,
                          ops[i].file, clock + 1)
        IN  /\ clock' = clock + 1
            /\ db' = db \cup {row}
            /\ ops' = [ops EXCEPT ![i].phase = "reply", ![i].res = "ok",
                         ![i].data = Some(row)]
     \/ /\ \E res \in {"error", "throw"} :
             ops' = [ops EXCEPT ![i].phase = "reply", ![i].res = res]
        /\ UNCHANGED <<db, clock>>
  /\ UNCHANGED <<user, notes, loading, ret, calls, nvidiApiKey, lag, selectedNote, page, edge, llm>>

\* a create that builds the new collection from the one of its first render
AfterCreateOnSnapshot(list, res, data) ==
  IF res = "ok" THEN <<data[1]>> ELSE list

\* setNotes(prev => [data, ...prev]) on success only
AfterCreate(list, res, data) ==
  IF res = "ok" THEN Prepend(data[1], list) ELSE list

\* return data on success, null otherwise
RowOrNull(res, data) == IF res = "ok" THEN data ELSE Absent

createNoteResolve(i) ==
  /\ ops[i].kind = "create" /\ ops[i].phase = "reply"
  /\ notes' = AfterCreate(notes, ops[i].res, ops[i].data)
  /\ ret' = Returned("create", RowOrNull(ops[i].res, ops[i].data))
  /\ ops' = [ops EXCEPT ![i] = Settled(ops[i])]
  /\ UNCHANGED <<user, loading, db, clock, calls, nvidiApiKey, lag, selectedNote, page, edge, llm>>

\* ------------------------------------------------------------------ update
updateNote(id, in) ==
  /\ IF SignedOut
       THEN /\ ret' = Returned("update", Absent)
            /\ UNCHANGED <<ops, calls, clock>>
       ELSE /\ CanStart
            /\ calls' = calls + 1
            /\ clock' = Later(DateNow)
            /\ ops' = [ops EXCEPT ![NewSlot] =
                 [kind |-> "update", phase |-> "store", uid |-> user, id |-> id,
                  title |-> in.title, content |-> in.content, ts |-> DateNow,
                  res |-> "-", data |-> Absent]]
            /\ UNCHANGED ret
  /\ UNCHANGED <<user, notes, loading, db, nvidiApiKey, lag, selectedNote, page, edge, llm>>

\* an update that also wipes the summary of the note
TitlePatchWhole(row, title, content, ts) ==
  [row EXCEPT !.title = title, !.content = content, !.updated_at = ts,
              !.summary = <<>>]

\* .update({ title, content, updated_at })
TitlePatch(row, title, content, ts) ==
  [row EXCEPT !.title = title, !.content = content, !.updated_at = ts]

\* ....eq('id', id).select().single(): no matching row is an error
StoreUpdate(i) ==
  /\ ops[i].kind = "update" /\ ops[i].phase = "store"
  /\ \/ /\ Matching(ops[i].uid, ops[i].id) # {}
        /\ LET old == CHOOSE n \in Matching(ops[i].uid, ops[i].id) : TRUE
               new == TitlePatch(old, ops[i].title, ops[i].content, ops[i].ts)
           IN  /\ db' = (db \ {old}) \cup {new}
               /\ ops' = [ops EXCEPT ![i].phase = "reply", ![i].res = "ok",
                            ![i].data = Some(new)]
     \/ /\ \E res \in {"error", "throw"} :
             ops' = [ops EXCEPT ![i].phase = "reply", ![i].res = res]
        /\ UNCHANGED db
  /\ UNCHANGED <<user, notes, loading, ret, clock, calls, nvidiApiKey, lag, selectedNote, page, edge, llm>>

\* an update whose resolution never refreshes the entry
AfterUpdateStale(list, res, id, data) == list

\* setNotes(prev => prev.map(note => note.id === id ? data : note)) on success only
AfterUpdate(list, res, id, data) ==
  IF res = "ok" THEN ReplaceById(list, id, data[1]) ELSE list

updateNoteResolve(i) ==
  /\ ops[i].kind = "update" /\ ops[i].phase = "reply"
  /\ notes' = AfterUpdate(notes, ops[i].res, ops[i].id, ops[i].data)
  /\ ret' = Returned("update", RowOrNull(ops[i].res, ops[i].data))
  /\ ops' = [ops EXCEPT ![i] = Settled(ops[i])]
  /\ UNCHANGED <<user, loading, db, clock, calls, nvidiApiKey, lag, selectedNote, page, edge, llm>>

\* ------------------------------------------------------------------ delete
\* deleteNote up to its await: the delete is on its way to the store
deleteNoteCall(uid, id) ==
  [kind |-> "delete", phase |-> "store", uid |-> uid, id |-> id, res |-> "-"]

deleteNote(id) ==
  /\ IF SignedOut
       THEN /\ ret' = Returned("delete", Some(FALSE))
            /\ UNCHANGED <<ops, calls>>
       ELSE /\ CanStart
            /\ calls' = calls + 1
            /\ ops' = [ops EXCEPT ![NewSlot] = deleteNoteCall(user, id)]
            /\ UNCHANGED ret
  /\ UNCHANGED <<user, notes, loading, db, clock, nvidiApiKey, lag, selectedNote, page, edge, llm>>

\* .delete().eq('id', id): no matching row is no error
StoreDelete(i) ==
  /\ ops[i].kind = "delete" /\ ops[i].phase = "store"
  /\ \/ /\ db' = db \ Matching(ops[i].uid, ops[i].id)
        /\ ops' = [ops EXCEPT ![i].phase = "reply", ![i].res = "ok"]
     \/ /\ \E res \in {"error", "throw"} :
             ops' = [ops EXCEPT ![i].phase = "reply", ![i].res = res]
        /\ UNCHANGED db
  /\ UNCHANGED <<user, notes, loading, ret, clock, calls, nvidiApiKey, lag, selectedNote, page, edge, llm>>

\* a delete that drops the entry before looking at the store's answer
AfterDeleteOptimistic(list, res, id) == RemoveById(list, id)

\* setNotes(prev => prev.filter(note => note.id !== id)) on success only
AfterDelete(list, res, id) == IF res = "ok" THEN RemoveById(list, id) ELSE list

\* deleteNote after its await
deleteNoteSettle(i) ==
  /\ ops[i].kind = "delete" /\ ops[i].phase = "reply"
  /\ notes' = AfterDelete(notes, ops[i].res, ops[i].id)
  /\ ret' = Returned("delete", Some(ops[i].res = "ok"))
  /\ ops' = [ops EXCEPT ![i] = Settled(ops[i])]
  /\ UNCHANGED <<user, loading, db, clock, calls, nvidiApiKey, lag, edge, llm>>

\* deleteNote resolves to a caller that does nothing with the page
deleteNoteResolve(i) ==
  /\ page[i] = NoHandler
  /\ deleteNoteSettle(i)
  /\ UNCHANGED <<selectedNote, page>>

\* ------------------------------------------------------------------ edge functions
\* an HTTP response of an edge function; every one carries corsHeaders
Http(status, summary, error) ==
  [status |-> status, summary |-> summary, error |-> error, cors |-> TRUE]
NoHttp == Http(0, Absent, Absent)
\* a preflight answer without the headers
PreflightBare == [status |-> 200, summary |-> <<>>, error |-> <<>>, cors |-> FALSE]

\* new Response(null, { headers: corsHeaders })
Preflight == Http(200, Absent, Absent)
\* new Response(JSON.stringify({ summary }), ...)
Ok200(text) == Http(200, Some(text), Absent)
\* an exception nothing catches: the runtime's own bare answer
ErrorUncaught(msg) ==
  [status |-> 500, summary |-> <<>>, error |-> <<>>, cors |-> FALSE]

\* new Response(JSON.stringify({ error: error.message }), { status: 500, ... })
Error500(msg) == Http(500, Absent, Some(Str(msg)))

\* a request on its way to summarize-note (fn "one") or summarize-notes (fn "many")
EdgeReq(fn, method, content, items) ==
  [st |-> "recv", fn |-> fn, method |-> method, content |-> content,
   items |-> items, summaries |-> <<>>, resps |-> <<>>, sent |-> 0,
   http |-> NoHttp]

\* a handler that never looks at the key
KeyUnchecked == TRUE

\* if (!nvidiApiKey) throw ...
KeyConfigured == nvidiApiKey

\* the bullet character U+2022 that starts every line of a batch summary
BulletMark == "U+2022"
\* `<bullet> ${note.title}: ${summary}`
Bullet(title, text) == <<BulletMark, " ">> \o title \o Str(": ") \o text
\* `<bullet> ${note.title}: Unable to summarize this note.`
Fallback(title) ==
  <<BulletMark, " ">> \o title \o Str(": ") \o Str("Unable to summarize this note.")

\* summaries.join("\n\n")
RECURSIVE JoinLines(_)
JoinLines(lines) ==
  IF Len(lines) = 0 THEN <<>>
  ELSE IF Len(lines) = 1 THEN lines[1]
  ELSE lines[1] \o Str("\n\n") \o JoinLines(Tail(lines))

\* a handler that starts the requests of all its items at once
ToIssueAll(folded, n) == IF folded = 0 THEN 1..n ELSE {}

\* the completion requests the handler issues once `folded` of its n items are
\* in the result list: for (const note of notes) { await fetch(...) ... }
ToIssue(folded, n) == IF folded < n THEN {folded + 1} ELSE {}

\* requests of slot i for the items idxs
Requests(i, idxs) == {[slot |-> i, idx |-> k] : k \in idxs}

\* how many completion requests one invocation makes at most
ItemCount(e) == IF e.fn = "one" THEN 1 ELSE Len(e.items)

Done(e, http) == [e EXCEPT !.st = "done", !.http = http]

\* serve(async (req) => ...) up to its first await fetch
serve(i) ==
  /\ edge[i].st = "recv"
  /\ LET e == edge[i]
         first == ToIssue(0, ItemCount(e))
     IN  IF e.method = "OPTIONS"
           THEN /\ edge' = [edge EXCEPT ![i] = Done(e, Preflight)]
                /\ UNCHANGED llm
         ELSE IF ~KeyConfigured
           THEN /\ edge' = [edge EXCEPT ![i] =
                              Done(e, Error500("NVIDIA API key not configured"))]
                /\ UNCHANGED llm
         ELSE IF first = {}
           THEN /\ edge' = [edge EXCEPT ![i] = Done(e, Ok200(JoinLines(<<>>)))]
                /\ UNCHANGED llm
           ELSE /\ edge' = [edge EXCEPT ![i].st = "run",
                              ![i].sent = Cardinality(first)]
                /\ llm' = llm \cup Requests(i, first)
  /\ UNCHANGED <<user, notes, loading, ret, ops, db, clock, calls, nvidiApiKey, lag, selectedNote, page>>

\* what the completion endpoint may do with one request
LlmOutcomes ==
  {[kind |-> "ok", text |-> s] : s \in Summaries}
    \cup {[kind |-> k, text |-> <<>>] : k \in {"status", "throw", "malformed"}}

\* a handler that takes whatever the endpoint sent for a summary
OneAfterLenient(e, out) == [e EXCEPT !.st = "done", !.http = Ok200(out.text)]

\* summarize-note after its await fetch
OneAfter(e, out) ==
  Done(e, IF out.kind = "ok" THEN Ok200(out.text)
          ELSE IF out.kind = "status" THEN Error500("NVIDIA API error")
          ELSE Error500(out.kind))

\* a batch loop that pushes nothing for an item the endpoint refused
LineForSuccessOnly(title, out) ==
  IF out.kind = "ok" THEN Bullet(title, out.text) ELSE <<>>

\* the line the batch loop pushes for a response it can read
LineFor(title, out) ==
  IF out.kind = "ok" THEN Bullet(title, out.text) ELSE Fallback(title)

\* the completion endpoint answers request r and the handler runs to its next await
serveResume(r) ==
  /\ r \in llm
  /\ \E out \in LlmOutcomes :
       LET e == [edge[r.slot] EXCEPT !.resps = Append(@, out)]
       IN  IF e.fn = "one"
             THEN /\ edge' = [edge EXCEPT ![r.slot] = OneAfter(e, out)]
                  /\ llm' = llm \ {r}
           ELSE IF out.kind \in {"throw", "malformed"}
             THEN /\ edge' = [edge EXCEPT ![r.slot] = Done(e, Error500(out.kind))]
                  /\ llm' = llm \ {r}
           ELSE LET lines == Append(e.summaries, LineFor(e.items[r.idx].title, out))
                    more == ToIssue(Len(lines), Len(e.items))
                             \ {q.idx : q \in {p \in llm : p.slot = r.slot}}
                    e2 == [e EXCEPT !.summaries = lines,
                                    !.sent = @ + Cardinality(more)]
                IN  /\ llm' = (llm \ {r}) \cup Requests(r.slot, more)
                    /\ edge' = [edge EXCEPT ![r.slot] =
                         IF Len(lines) = Len(e.items)
                           THEN Done(e2, Ok200(JoinLines(lines)))
                           ELSE e2]
  /\ UNCHANGED <<user, notes, loading, ret, ops, db, clock, calls, nvidiApiKey, lag, selectedNote, page>>

\* ------------------------------------------------------------------ summarizeNote
\* a lookup that takes the first note whatever its id
FindFirst(list, id) == IF Len(list) = 0 THEN <<>> ELSE <<list[1]>>

\* notes.find(n => n.id === noteId)
Find(list, id) ==
  LET hits == SelectSeq(list, LAMBDA n : n.id = id)
  IN  IF Len(hits) = 0 THEN Absent ELSE Some(hits[1])

summarizeNote(id) ==
  /\ IF Find(notes, id) = Absent \/ SignedOut
       THEN /\ ret' = Returned("sumOne", Absent)
            /\ UNCHANGED <<ops, edge, calls>>
       ELSE /\ CanStart
            /\ calls' = calls + 1
            /\ ops' = [ops EXCEPT ![NewSlot] =
                 [kind |-> "sumOne", phase |-> "edge", uid |-> None, id |-> id,
                  was |-> Find(notes, id)[1].summary,
                  summary |-> <<>>, ts |-> 0, res |-> "-", data |-> Absent]]
            /\ edge' = [edge EXCEPT ![NewSlot] =
                 EdgeReq("one", "POST", Find(notes, id)[1].content, <<>>)]
            /\ UNCHANGED ret
  /\ UNCHANGED <<user, notes, loading, db, clock, nvidiApiKey, lag, selectedNote, page, llm>>

\* summarizeNote between its two awaits: the function has answered
summarizeNoteSave(i) ==
  /\ ops[i].kind = "sumOne" /\ ops[i].phase = "edge" /\ edge[i].st = "done"
  /\ edge' = [edge EXCEPT ![i] = NoEdge]
  /\ IF edge[i].http.status # 200
       THEN /\ ret' = Returned("sumOne", Absent)
            /\ ops' = [ops EXCEPT ![i] = Settled(ops[i])]
            /\ UNCHANGED clock
       ELSE /\ clock' = Later(DateNow)
            /\ ops' = [ops EXCEPT ![i].phase = "store", ![i].uid = user,
                         ![i].summary = edge[i].http.summary[1],
                         ![i].ts = DateNow]
            /\ UNCHANGED ret
  /\ UNCHANGED <<user, notes, loading, db, calls, nvidiApiKey, lag, selectedNote, page, llm>>

\* .update({ summary, updated_at })
SummaryPatch(row, summary, ts) ==
  [row EXCEPT !.summary = Some(summary), !.updated_at = ts]

StoreSummary(i) ==
  /\ ops[i].kind = "sumOne" /\ ops[i].phase = "store"
  /\ \/ /\ Matching(ops[i].uid, ops[i].id) # {}
        /\ LET old == CHOOSE n \in Matching(ops[i].uid, ops[i].id) : TRUE
               new == SummaryPatch(old, ops[i].summary, ops[i].ts)
           IN  /\ db' = (db \ {old}) \cup {new}
               /\ ops' = [ops EXCEPT ![i].phase = "reply", ![i].res = "ok",
                            ![i].data = Some(new)]
     \/ /\ \E res \in {"error", "throw"} :
             ops' = [ops EXCEPT ![i].phase = "reply", ![i].res = res]
        /\ UNCHANGED db
  /\ UNCHANGED <<user, notes, loading, ret, clock, calls, nvidiApiKey, lag, selectedNote, page, edge, llm>>

\* a summarizeNote that hands back the computed text whatever the store said
SummaryAlways(res, summary) == Some(summary)

\* return summary once the update is stored, null otherwise
SummaryOrNull(res, summary) == IF res = "ok" THEN Some(summary) ELSE Absent

summarizeNoteResolve(i) ==
  /\ ops[i].kind = "sumOne" /\ ops[i].phase = "reply"
  /\ notes' = AfterUpdate(notes, ops[i].res, ops[i].id, ops[i].data)
  /\ ret' = Returned("sumOne", SummaryOrNull(ops[i].res, ops[i].summary))
  /\ ops' = [ops EXCEPT ![i] = Settled(ops[i])]
  /\ UNCHANGED <<user, loading, db, clock, calls, nvidiApiKey, lag, selectedNote, page, edge, llm>>

\* ------------------------------------------------------------------ summarizeAllNotes
\* notes.map(note => ({ title: note.title, content: note.content }))
BatchItems(list) ==
  [k \in 1..Len(list) |-> [title |-> list[k].title, content |-> list[k].content]]

summarizeAllNotes ==
  /\ IF SignedOut \/ Len(notes) = 0
       THEN /\ ret' = Returned("sumAll", Absent)
            /\ UNCHANGED <<ops, edge, calls>>
       ELSE /\ CanStart
            /\ calls' = calls + 1
            /\ ops' = [ops EXCEPT ![NewSlot] = [kind |-> "sumAll", phase |-> "edge"]]
            /\ edge' = [edge EXCEPT ![NewSlot] =
                 EdgeReq("many", "POST", <<>>, BatchItems(notes))]
            /\ UNCHANGED ret
  /\ UNCHANGED <<user, notes, loading, db, clock, nvidiApiKey, lag, selectedNote, page, llm>>

\* a bulk summarize that writes the combined text into every note it shows
AfterBatchStamped(list, http) ==
  [k \in 1..Len(list) |-> [list[k] EXCEPT !.summary = http.summary]]

\* summarizeAllNotes never calls setNotes: the combined text is only returned
AfterBatch(list, http) == list

summarizeAllNotesResolve(i) ==
  /\ ops[i].kind = "sumAll" /\ ops[i].phase = "edge" /\ edge[i].st = "done"
  /\ notes' = AfterBatch(notes, edge[i].http)
  /\ ret' = Returned("sumAll", IF edge[i].http.status = 200
                                 THEN edge[i].http.summary ELSE Absent)
  /\ ops' = [ops EXCEPT ![i] = Settled(ops[i])]
  /\ edge' = [edge EXCEPT ![i] = NoEdge]
  /\ UNCHANGED <<user, loading, db, clock, calls, nvidiApiKey, lag, selectedNote, page, llm>>

\* ------------------------------------------------------------------ system
\* notes the user saved in earlier sessions
\* the rows of a user a session can start with
MaxShown == 2
Seed1 == NewRow("u1", Str("A"), Str("x"), Absent, 1)
Seed2 == NewRow("u1", Str("B"), Str("y"), Some(Str("f")), 2)

\* the hook after its first render and effect, for the users us: no session, or
\* a session whose first fetch is on its way; the store holds the notes of
\* earlier sessions
InitOf(us) ==
  /\ user \in us \cup {None}
  /\ notes = <<>>
  /\ loading = (user # None)
  /\ ret = Returned("none", Absent)
  /\ ops = [i \in Slots |-> IF i = 1 /\ user # None THEN fetchNotesCall(user) ELSE Idle]
  /\ db \in {{}, {Seed1}, {Seed1, Seed2}}
  /\ clock = Cardinality(db)
  /\ calls = 0
  /\ nvidiApiKey \in BOOLEAN
  /\ lag \in BOOLEAN
  /\ edge = [i \in Slots |-> NoEdge]
  /\ llm = {}
  /\ selectedNote = Absent
  /\ page = [i \in Slots |-> NoHandler]

\* the full fetch
Fetching ==
  \/ refetch
  \/ \E i \in Slots : StoreSelect(i)
  \/ \E i \in Slots : fetchNotesResolve(i)

\* the session and the full fetch
Session(us) ==
  \/ \E u \in us \cup {None} : useEffectUser(u)
  \/ Fetching

\* create, update and delete
Mutations ==
  \/ \E in \in NoteInputs : createNote(in)
  \/ \E id \in Ids, in \in Edits : updateNote(id, in)
  \/ \E id \in Ids : deleteNote(id)
  \/ \E i \in Slots : StoreInsert(i)
  \/ \E i \in Slots : createNoteResolve(i)
  \/ \E i \in Slots : StoreUpdate(i)
  \/ \E i \in Slots : updateNoteResolve(i)
  \/ \E i \in Slots : StoreDelete(i)
  \/ \E i \in Slots : deleteNoteResolve(i)

\* the two edge functions
Functions ==
  \/ \E i \in Slots : serve(i)
  \/ \E r \in llm : serveResume(r)

\* summarizeNote and summarizeAllNotes
Summarizing ==
  \/ \E id \in Ids : summarizeNote(id)
  \/ summarizeAllNotes
  \/ \E i \in Slots : summarizeNoteSave(i)
  \/ \E i \in Slots : StoreSummary(i)
  \/ \E i \in Slots : summarizeNoteResolve(i)
  \/ \E i \in Slots : summarizeAllNotesResolve(i)

\* the whole program, any of the users signing in and out
Init == InitOf(Users)
Next == Session(Users) \/ Mutations \/ Functions \/ Summarizing
Spec == Init /\ [][Next]_vars

\* one user's sessions with the store operations only
InitStore == InitOf({"u1"}) /\ nvidiApiKey = TRUE /\ lag = FALSE
NextStore == Session({"u1"}) \/ Mutations
SpecStore == InitStore /\ [][NextStore]_vars

\* the store operations of a client whose clock is behind the store's
InitLag == InitOf({"u1"}) /\ nvidiApiKey = TRUE /\ lag = TRUE
SpecLag == InitLag /\ [][NextStore]_vars

\* one user's sessions with the summarize operations only
InitSummarize == InitOf({"u1"}) /\ lag = FALSE
NextSummarize == Session({"u1"}) \/ Functions \/ Summarizing
SpecSummarize == InitSummarize /\ [][NextSummarize]_vars

\* a call of one of the six operations of the hook
HookCall ==
  \/ refetch
  \/ \E in \in NoteInputs : createNote(in)
  \/ \E id \in Ids, in \in Edits : updateNote(id, in)
  \/ \E id \in Ids : deleteNote(id)
  \/ \E id \in Ids : summarizeNote(id)
  \/ summarizeAllNotes

\* a step of a pending operation: an answer of the store, of an edge function
\* or of the completion endpoint, or the code after an await
HookStep ==
  \/ \E i \in Slots : StoreSelect(i) \/ fetchNotesResolve(i)
  \/ \E i \in Slots : StoreInsert(i) \/ createNoteResolve(i)
  \/ \E i \in Slots : StoreUpdate(i) \/ updateNoteResolve(i)
  \/ \E i \in Slots : StoreDelete(i) \/ deleteNoteResolve(i)
  \/ \E i \in Slots : summarizeNoteSave(i) \/ StoreSummary(i) \/ summarizeNoteResolve(i)
  \/ \E i \in Slots : summarizeAllNotesResolve(i)
  \/ Functions

\* no operation is pending
Quiet == FreeSlots = Slots

\* one session of a caller who awaits each operation before the next; every
\* request sent is answered in the end
InitOne == InitOf({"u1"}) /\ user = "u1" /\ lag = FALSE
NextOne == (Quiet /\ HookCall) \/ HookStep
SpecOne == InitOne /\ [][NextOne]_vars /\ WF_vars(HookStep)

\* one lasting session in which creates, deletes and single summaries overlap
InitMix ==
  /\ InitOf({"u1"}) /\ user = "u1"
  /\ nvidiApiKey = TRUE /\ lag = FALSE /\ db = {Seed1, Seed2}
NextMix ==
  \/ \E i \in Slots : StoreSelect(i) \/ fetchNotesResolve(i)
  \/ \E in \in NoteInputs : createNote(in)
  \/ \E id \in Ids : deleteNote(id)
  \/ \E id \in Ids : summarizeNote(id)
  \/ \E i \in Slots : StoreInsert(i) \/ createNoteResolve(i)
  \/ \E i \in Slots : StoreDelete(i) \/ deleteNoteResolve(i)
  \/ \E i \in Slots : summarizeNoteSave(i) \/ StoreSummary(i) \/ summarizeNoteResolve(i)
  \/ Functions
SpecMix == InitMix /\ [][NextMix]_vars

\* one lasting session in which updates and single summaries overlap
NextPatch ==
  \/ \E i \in Slots : StoreSelect(i) \/ fetchNotesResolve(i)
  \/ \E id \in Ids, in \in Edits : updateNote(id, in)
  \/ \E id \in Ids : summarizeNote(id)
  \/ \E i \in Slots : StoreUpdate(i) \/ updateNoteResolve(i)
  \/ \E i \in Slots : summarizeNoteSave(i) \/ StoreSummary(i) \/ summarizeNoteResolve(i)
  \/ Functions
SpecPatch == InitMix /\ [][NextPatch]_vars

\* ------------------------------------------------------------------ the page
\* onClick={() => setSelectedNote(note)} on an entry of the rendered list
selectNote(k) ==
  /\ user # None /\ ~loading
  /\ k \in 1..Len(notes)
  /\ selectedNote' = Some(notes[k])
  /\ UNCHANGED <<user, notes, loading, ret, ops, db, clock, calls, nvidiApiKey, lag,
                 edge, llm, page>>

\* handleDeleteNote up to its await, called by the delete button of the k-th
\* entry: it keeps the selectedNote and the notes of the render it was made in
handleDeleteNote(k) ==
  /\ user # None /\ ~loading
  /\ k \in 1..Len(notes)
  /\ CanStart
  /\ calls' = calls + 1
  /\ ops' = [ops EXCEPT ![NewSlot] = deleteNoteCall(user, notes[k].id)]
  /\ page' = [page EXCEPT ![NewSlot] =
       [kind |-> "handleDeleteNote", selectedNote |-> selectedNote, notes |-> notes]]
  /\ UNCHANGED <<user, notes, loading, ret, db, clock, nvidiApiKey, lag, edge, llm,
                 selectedNote>>

\* if (success && selectedNote?.id === noteId)
\*   setSelectedNote(notes.length > 1 ? notes.find(n => n.id !== noteId) || null : null)
\* with selectedNote and notes those of the closure
NextSelection(sel, closure, id, success) ==
  IF success /\ closure.selectedNote # Absent /\ closure.selectedNote[1].id = id
    THEN IF Len(closure.notes) > 1
           THEN LET rest == RemoveById(closure.notes, id)
                IN  IF rest = <<>> THEN Absent ELSE Some(rest[1])
           ELSE Absent
    ELSE sel

\* handleDeleteNote after its await: deleteNote resolves and the handler goes on
handleDeleteNoteResume(i) ==
  /\ page[i].kind = "handleDeleteNote"
  /\ deleteNoteSettle(i)
  /\ selectedNote' = NextSelection(selectedNote, page[i], ops[i].id, ops[i].res = "ok")
  /\ page' = [page EXCEPT ![i] = NoHandler]

\* one user at the page: session changes, the list, selecting and deleting
NextPage ==
  \/ Session({"u1"})
  \/ \E k \in 1..MaxShown : selectNote(k)
  \/ \E k \in 1..MaxShown : handleDeleteNote(k)
  \/ \E i \in Slots : StoreDelete(i)
  \/ \E i \in Slots : handleDeleteNoteResume(i)
InitPage == InitOf({"u1"}) /\ nvidiApiKey = TRUE /\ lag = FALSE
SpecPage == InitPage /\ [][NextPage]_vars

\* the edge functions alone, called with any request
BoundedSeq(S, n) == UNION {[1..k -> S] : k \in 0..n}
Items ==
  {[title |-> in.title, content |-> in.content] : in \in NoteInputs}
    \cup {[title |-> Str("C"), content |-> Str("z")]}
Requests1 ==
  {EdgeReq("one", m, in.content, <<>>) : m \in {"POST", "OPTIONS"}, in \in NoteInputs}
    \cup {EdgeReq("many", m, <<>>, items) :
            m \in {"POST", "OPTIONS"}, items \in BoundedSeq(Items, MaxBatch)}
InitEdge ==
  /\ user = None
  /\ notes = <<>>
  /\ loading = FALSE
  /\ ret = Returned("none", Absent)
  /\ ops = [i \in Slots |-> Idle]
  /\ db = {}
  /\ clock = 0
  /\ calls = 0
  /\ nvidiApiKey \in BOOLEAN
  /\ lag = FALSE
  /\ \E req \in Requests1 : edge = [i \in Slots |-> IF i = 1 THEN req ELSE NoEdge]
  /\ llm = {}
  /\ selectedNote = Absent
  /\ page = [i \in Slots |-> NoHandler]
SpecEdge == InitEdge /\ [][Functions]_vars

\* ------------------------------------------------------------------ properties
\* the set of entries of a list
Range(list) == {list[k] : k \in 1..Len(list)}

\* slot i holds an answered request of one of the kinds and this step resolves it
Resolves(i, kinds) ==
  /\ ops[i].kind \in kinds
  /\ ops[i].phase = "reply"
  /\ ops'[i] = Idle

\* the collection holds exactly the rows the store holds for the user
InSync ==
  /\ Range(notes) = RowsOf(user)
  /\ Len(notes) = Cardinality(RowsOf(user))

Pending == {i \in Slots : ops[i].kind # "idle"}

\* C1: whenever an operation of the session resolves successfully and leaves no
\* other operation pending, the collection holds exactly the notes the store
\* holds for the user: none locally present that is not persisted, none missing.
OwnershipInvariant ==
  [][\A i \in Slots :
       (/\ Resolves(i, {"fetch", "create", "update", "delete"})
        /\ ops[i].res = "ok"
        /\ user # None
        /\ Pending' = {})
         => InSync']_vars

\* C2: the resolution of a create, update or delete the store refused (or whose
\* request threw) leaves the collection as it was just before and hands the
\* caller null (create, update) or false (delete).
FailedMutationKeepsCollection ==
  [][\A i \in Slots :
       (Resolves(i, {"create", "update", "delete"}) /\ ops[i].res # "ok")
         => /\ notes' = notes
            /\ ret' = Returned(ops[i].kind,
                               IF ops[i].kind = "delete" THEN Some(FALSE) ELSE Absent)]_vars

\* C2 witness: the store has refused a delete, an update or a create while the
\* collection holds notes, the target of the delete or update among them
FailedMutationSeen ==
  /\ \E i \in Slots : /\ ops[i].kind = "delete" /\ ops[i].phase = "reply"
                      /\ ops[i].res = "error"
                      /\ Find(notes, ops[i].id) # Absent
  /\ \E i \in Slots : /\ ops[i].kind \in {"update", "create"}
                      /\ ops[i].phase = "reply"
                      /\ ops[i].res = "throw"

\* C10: while no session is active the collection is empty.
EmptyWithoutSession == user = None => notes = <<>>

\* the summary the collection shows for note id (Absent when it shows none)
ShownSummary(list, id) ==
  IF Find(list, id) = Absent THEN Absent ELSE Find(list, id)[1].summary

\* slot i holds a summarizeNote whose summary was computed and whose store update
\* was refused, and this step resolves it
SummaryLost(i) == Resolves(i, {"sumOne"}) /\ ops[i].res # "ok"

\* C3 as stated: when the summary was computed but the store update failed,
\* summarizeNote returns null and the collection shows for that note the summary
\* it showed when the operation was invoked.
SummaryAsBeforeOperation ==
  [][\A i \in Slots :
       SummaryLost(i)
         => /\ ret' = Returned("sumOne", Absent)
            /\ Find(notes', ops[i].id) # Absent
                 => ShownSummary(notes', ops[i].id) = ops[i].was]_vars

\* C3 amended: when the summary was computed but the store update failed, the
\* resolution of summarizeNote returns null, not the computed text, and leaves
\* the collection, the note's summary included, as it was just before.
SummaryPersistenceGate ==
  [][\A i \in Slots :
       SummaryLost(i)
         => /\ ret' = Returned("sumOne", Absent)
            /\ ret'.val # Some(ops[i].summary)
            /\ notes' = notes]_vars

\* C3 witness: a summary was computed for a note of the collection, the store
\* refused to save it, and the collection does not show it
SummaryLostSeen ==
  \E i \in Slots :
    /\ ops[i].kind = "sumOne" /\ ops[i].phase = "reply" /\ ops[i].res = "error"
    /\ Find(notes, ops[i].id) # Absent
    /\ ShownSummary(notes, ops[i].id) # Some(ops[i].summary)

\* C4: a call of refresh, create, update, delete, summarizeOne or summarizeAll
\* made while no user is active sends nothing to the store and nothing to the
\* summarization service, leaves the collection as it is and returns null,
\* false or undefined.
NoSessionNoOp ==
  [][(user = None /\ HookCall)
       => /\ ops' = ops /\ edge' = edge /\ llm' = llm /\ db' = db
          /\ notes' = notes /\ loading' = loading
          /\ ret'.val = IF ret'.kind = "delete" THEN Some(FALSE) ELSE Absent]_vars

\* C4 witness: with no session from the start, a delete was called and returned
\* false while the store holds notes
NoSessionCallSeen ==
  /\ user = None /\ calls = 0 /\ db # {}
  /\ ret = Returned("delete", Some(FALSE))

\* C9 as stated: the completion endpoint has at most one request of this client
\* in flight.
OneRequestPerClient == Cardinality(llm) <= 1

\* the pending summarize operations whose edge function is running
Summarizers ==
  {i \in Slots : ops[i].kind \in {"sumOne", "sumAll"} /\ edge[i].st = "run"}

\* C9 amended: every completion request in flight belongs to a pending
\* summarizeNote or summarizeAllNotes, and each of these has at most one in
\* flight; overlapping operations add up.
OneRequestPerOperation ==
  /\ \A r \in llm : r.slot \in Summarizers
  /\ \A i \in Slots : Cardinality({r \in llm : r.slot = i}) <= 1
  /\ Cardinality(llm) <= Cardinality(Summarizers)

\* C9 witness: a summarizeNote and a summarizeAllNotes over two notes each have
\* a completion request in flight
TwoRequestsSeen ==
  \E i, j \in Slots :
    /\ ops[i].kind = "sumOne" /\ ops[j].kind = "sumAll"
    /\ Len(edge[j].items) = 2
    /\ {r.slot : r \in llm} = {i, j}

\* the batch invocations that have answered a POST with the key configured
FinishedBatches ==
  {i \in Slots : /\ edge[i].st = "done" /\ edge[i].fn = "many"
                 /\ edge[i].method = "POST" /\ nvidiApiKey}

\* the line the combined summary must carry for an item, given the answer of
\* the completion endpoint to its request
ExpectedLine(item, out) ==
  <<"U+2022", " ">> \o item.title \o <<": ">>
    \o (IF out.kind = "ok" THEN out.text ELSE <<"Unable to summarize this note.">>)

\* the lines k..n of the combined summary, a blank line between two of them
RECURSIVE ExpectedFrom(_, _, _)
ExpectedFrom(items, outs, k) ==
  IF k > Len(items) THEN <<>>
  ELSE ExpectedLine(items[k], outs[k])
         \o (IF k < Len(items) THEN <<"\n\n">> ELSE <<>>)
         \o ExpectedFrom(items, outs, k + 1)

\* every request of the batch got an answer with a status: success or not
AllAnswered(e) ==
  /\ Len(e.resps) = Len(e.items)
  /\ \A k \in 1..Len(e.resps) : e.resps[k].kind \in {"ok", "status"}

\* C5: when every completion request of a batch returns a status, success or
\* not, the combined summary has one bullet line per item, in input order, the
\* summary on the lines of the successful items and the fixed fallback text on
\* the others, the lines joined by a blank line.
BatchOrderPreserved ==
  \A i \in FinishedBatches :
    AllAnswered(edge[i])
      => /\ Len(edge[i].summaries) = Len(edge[i].items)
         /\ \A k \in 1..Len(edge[i].items) :
              edge[i].summaries[k] = ExpectedLine(edge[i].items[k], edge[i].resps[k])
         /\ edge[i].http = Ok200(ExpectedFrom(edge[i].items, edge[i].resps, 1))

\* C5 witness: the batch [A, B, C] has answered, B refused by the endpoint and
\* A and C summarized
BatchWithFallbackSeen ==
  \E i \in FinishedBatches :
    /\ Len(edge[i].items) = 3 /\ AllAnswered(edge[i])
    /\ [k \in 1..3 |-> edge[i].items[k].title] = <<Str("A"), Str("B"), Str("C")>>
    /\ [k \in 1..3 |-> edge[i].resps[k].kind] = <<"ok", "status", "ok">>

\* C6: with the key configured a batch always completes with a combined text of
\* one line per item, however the requests of its items fail.
BatchAlwaysCompletes ==
  \A i \in FinishedBatches :
    /\ edge[i].http.status = 200
    /\ edge[i].http.summary # Absent
    /\ Len(edge[i].summaries) = Len(edge[i].items)

\* C7: with the key missing no completion request is ever issued and no item is
\* processed, and every POST, single or batch, is answered with a status-500
\* error payload that carries no summary.
MissingKeyRejectsAll ==
  ~nvidiApiKey
    => /\ llm = {}
       /\ \A i \in Slots :
            edge[i].st # "idle"
              => /\ edge[i].st # "run"
                 /\ edge[i].sent = 0
                 /\ edge[i].resps = <<>> /\ edge[i].summaries = <<>>
                 /\ (edge[i].st = "done" /\ edge[i].method = "POST")
                      => /\ edge[i].http.status = 500
                         /\ edge[i].http.summary = Absent
                         /\ edge[i].http.error # Absent

\* C7 witness: with the key missing, a batch of two items has been answered
MissingKeyBatchSeen ==
  /\ ~nvidiApiKey
  /\ \E i \in Slots : /\ edge[i].st = "done" /\ edge[i].fn = "many"
                      /\ edge[i].method = "POST" /\ Len(edge[i].items) = 2

\* the completion requests of slot i in flight
InFlight(i) == {r \in llm : r.slot = i}

\* C8: a batch has at most one completion request in flight, and it is the one
\* of the item after those already folded into the result list; every earlier
\* request has been answered.
BatchSequential ==
  \A i \in Slots :
    (edge[i].st # "idle" /\ edge[i].fn = "many")
      => /\ Cardinality(InFlight(i)) <= 1
         /\ \A r \in InFlight(i) : r.idx = Len(edge[i].summaries) + 1
         /\ edge[i].sent = Len(edge[i].resps) + Cardinality(InFlight(i))

\* C8 witness: the request of the second item of a batch is in flight, the
\* first item folded
SecondRequestSeen ==
  \E i \in Slots :
    /\ edge[i].st = "run" /\ edge[i].fn = "many"
    /\ Len(edge[i].summaries) = 1
    /\ InFlight(i) = {[slot |-> i, idx |-> 2]}

\* C11: a successful update of a note that a create put into the collection
\* yields the entry with that id carrying the title and content of the update
\* and an updated_at strictly later than its created_at.
RoundTrip ==
  [][\A i \in Slots :
       (/\ Resolves(i, {"update"}) /\ ops[i].res = "ok"
        /\ Find(notes, ops[i].id) # Absent)
         => LET e == Find(notes', ops[i].id)[1]
            IN  /\ e.id = ops[i].id
                /\ e.title = ops[i].title /\ e.content = ops[i].content
                /\ e.updated_at > e.created_at]_vars

\* the requests on their way to the store
StoreRequests == {i \in Slots : ops[i].kind # "idle" /\ ops[i].phase = "store"}

\* C12: neither the call of summarizeAllNotes nor its resolution, successful or
\* not, sends a request to the store, changes the store or changes the
\* collection (entries, their fields and their order).
SummarizeAllDisplayOnly ==
  [][(summarizeAllNotes \/ \E i \in Slots : summarizeAllNotesResolve(i))
       => /\ notes' = notes
          /\ db' = db
          /\ StoreRequests' = StoreRequests
          /\ \A i \in Slots : ops'[i].kind = "sumAll" => ops'[i].phase = "edge"]_vars

\* C12 witness: a bulk summarize has returned its combined text while the
\* collection holds notes
SummarizeAllReturnedSeen ==
  /\ ret.kind = "sumAll" /\ ret.val # Absent
  /\ Len(notes) = 2

\* C13: when the summary of summarizeNote was computed and stored, the resolution
\* replaces the entry with that id by the record the store returned and returns
\* the summary text, so the entry's summary is the returned text whatever
\* summary it showed before.
SummaryReplacesEntry ==
  [][\A i \in Slots :
       (/\ Resolves(i, {"sumOne"}) /\ ops[i].res = "ok"
        /\ Find(notes, ops[i].id) # Absent)
         => /\ Find(notes', ops[i].id) = ops[i].data
            /\ ret' = Returned("sumOne", Some(ops[i].summary))
            /\ ShownSummary(notes', ops[i].id) = ret'.val
            /\ Len(notes') = Len(notes)]_vars

\* C13 witness: a second summary of a note is stored and about to replace the
\* different summary the collection shows for it
SummaryOverwriteSeen ==
  \E i \in Slots :
    /\ ops[i].kind = "sumOne" /\ ops[i].phase = "reply" /\ ops[i].res = "ok"
    /\ ShownSummary(notes, ops[i].id) # Absent
    /\ ShownSummary(notes, ops[i].id) # Some(ops[i].summary)

\* C14: the resolution of a fetch clears the loading flag; after a successful
\* select the collection is the returned list, latest created first as the
\* store ordered it; after a failed one (error or exception) it is untouched.
FetchReplacesOrKeeps ==
  [][\A i \in Slots :
       Resolves(i, {"fetch"})
         => /\ loading' = FALSE
            /\ ops[i].res = "ok"
                 => /\ notes' = ops[i].data
                    /\ \A k \in 1..(Len(notes') - 1) :
                         notes'[k].created_at >= notes'[k + 1].created_at
            /\ ops[i].res # "ok" => notes' = notes]_vars

\* C14 witness: with notes in the collection, one fetch has failed and another
\* has brought two notes; both are about to resolve
FetchBothWaysSeen ==
  /\ Len(notes) > 0
  /\ \E i, j \in Slots :
       /\ ops[i].kind = "fetch" /\ ops[i].phase = "reply" /\ ops[i].res = "throw"
       /\ ops[j].kind = "fetch" /\ ops[j].phase = "reply" /\ ops[j].res = "ok"
       /\ Len(ops[j].data) = 2

\* C15: neither the call of createNote nor the store's handling of the insert
\* changes the collection; the resolution of a confirmed insert puts the stored
\* note first, the previous entries after it in their order, and returns that
\* note.
CreateAfterConfirm ==
  [][/\ ((\E in \in NoteInputs : createNote(in)) \/ (\E i \in Slots : StoreInsert(i)))
          => notes' = notes
     /\ \A i \in Slots :
          (Resolves(i, {"create"}) /\ ops[i].res = "ok")
            => /\ Len(notes') = Len(notes) + 1
               /\ notes'[1] = ops[i].data[1]
               /\ \A k \in 1..Len(notes) : notes'[k + 1] = notes[k]
               /\ ret' = Returned("create", Some(notes'[1]))]_vars

\* C15 witness: the store has confirmed an insert while the collection holds
\* two notes
CreateConfirmedSeen ==
  \E i \in Slots :
    /\ ops[i].kind = "create" /\ ops[i].phase = "reply" /\ ops[i].res = "ok"
    /\ Len(notes) = 2

\* C16: the resolution of a successful update keeps the length of the
\* collection, puts the returned record at the position of the entry with the
\* id and leaves every other entry where and as it was.
UpdateInPlace ==
  [][\A i \in Slots :
       (Resolves(i, {"update"}) /\ ops[i].res = "ok")
         => /\ Len(notes') = Len(notes)
            /\ \A k \in 1..Len(notes) :
                 notes'[k] = IF notes[k].id = ops[i].id THEN ops[i].data[1]
                             ELSE notes[k]]_vars

\* C16 witness: the store has confirmed the update of the second of two entries
UpdateOfSecondSeen ==
  \E i \in Slots :
    /\ ops[i].kind = "update" /\ ops[i].phase = "reply" /\ ops[i].res = "ok"
    /\ Len(notes) = 2 /\ notes[2].id = ops[i].id

\* the positions of the entries of list whose id is not id
Others(list, id) == {k \in 1..Len(list) : list[k].id # id}

\* the k-th smallest of a set of positions
Kth(P, k) == CHOOSE j \in P : Cardinality({x \in P : x <= j}) = k

\* C17: after the resolution of a successful delete the collection has no entry
\* with the id and holds the other entries, each once, in their previous
\* order; when the id was not in the collection it is unchanged.
DeleteFilters ==
  [][\A i \in Slots :
       (Resolves(i, {"delete"}) /\ ops[i].res = "ok")
         => /\ \A k \in 1..Len(notes') : notes'[k].id # ops[i].id
            /\ Len(notes') = Cardinality(Others(notes, ops[i].id))
            /\ \A k \in 1..Len(notes') :
                 notes'[k] = notes[Kth(Others(notes, ops[i].id), k)]
            /\ Find(notes, ops[i].id) = Absent => notes' = notes]_vars

\* C17 witness: the store has confirmed the delete of the first of two entries
DeleteOfFirstSeen ==
  \E i \in Slots :
    /\ ops[i].kind = "delete" /\ ops[i].phase = "reply" /\ ops[i].res = "ok"
    /\ Len(notes) = 2 /\ notes[1].id = ops[i].id

\* no entry of the collection has the id
NotShown(id) == \A k \in 1..Len(notes) : notes[k].id # id

\* C18: summarizeNote called in a session with an id the collection does not
\* hold, and summarizeAllNotes called in a session with an empty collection,
\* send nothing to the edge functions, the completion endpoint or the store
\* and return null.
SummarizeFailsFast ==
  [][(/\ user # None
      /\ \/ \E id \in Ids : NotShown(id) /\ summarizeNote(id)
         \/ Len(notes) = 0 /\ summarizeAllNotes)
       => /\ ops' = ops /\ edge' = edge /\ llm' = llm /\ db' = db
          /\ notes' = notes
          /\ ret'.kind \in {"sumOne", "sumAll"} /\ ret'.val = Absent]_vars

\* C18 witness: in a session whose collection holds notes and has nothing
\* pending, a summarizeNote has returned null without starting anything
UnknownIdRefusedSeen ==
  /\ user # None /\ Len(notes) > 0
  /\ calls = 0 /\ Pending = {}
  /\ ret = Returned("sumOne", Absent)

\* every pending operation resolves in the end
Terminates == \A i \in Slots : (ops[i].kind # "idle") ~> (ops[i].kind = "idle")

\* the batch invocations that have answered a POST
AnsweredBatches ==
  {i \in Slots : edge[i].st = "done" /\ edge[i].fn = "many" /\ edge[i].method = "POST"}

\* C19 as stated: every operation resolves in the end, and a batch over N items
\* has handled exactly N answers of the completion endpoint when it resolves.
TerminatesAfterNSteps ==
  /\ Terminates
  /\ [](\A i \in AnsweredBatches : Len(edge[i].resps) = Len(edge[i].items))

\* C19 amended: every operation resolves in the end, and a batch over N items
\* has handled at most N answers of the completion endpoint, one per request
\* it sent, when it resolves: exactly N when it answers with the combined
\* text, none when the key is missing.
TerminatesWithinNSteps ==
  /\ Terminates
  /\ [](\A i \in AnsweredBatches :
          /\ Len(edge[i].resps) <= Len(edge[i].items)
          /\ Len(edge[i].resps) = edge[i].sent
          /\ edge[i].http.status = 200 => Len(edge[i].resps) = Len(edge[i].items)
          /\ ~nvidiApiKey => Len(edge[i].resps) = 0)

\* C19 witness: the bulk summarize of two notes has got its combined text after
\* two answers of the completion endpoint
BatchOfTwoAnsweredSeen ==
  \E i \in AnsweredBatches :
    /\ ops[i].kind = "sumAll"
    /\ Len(edge[i].items) = 2 /\ Len(edge[i].resps) = 2
    /\ edge[i].http.status = 200

\* how far a pending operation has got: at the edge function, at the store,
\* answered, over
Rank(op) ==
  IF op.kind = "idle" THEN 3
  ELSE IF op.phase = "edge" THEN 0
  ELSE IF op.phase = "store" THEN 1
  ELSE 2

\* the completion requests slot i has sent so far
SentBy(i) == IF edge[i].st \in {"run", "done"} THEN edge[i].sent ELSE 0

\* C20: a pending operation only moves forward, from its summarization request
\* to its store request to the answer to its end, so it sends each request at
\* most once whatever the answer; an edge function sends at most one completion
\* request per item, each for the item after those it has already asked for.
NoRetry ==
  [][\A i \in Slots :
       /\ (ops[i].kind # "idle" /\ ops'[i] # ops[i]) => Rank(ops'[i]) > Rank(ops[i])
       /\ edge'[i].st # "idle" => SentBy(i)' <= ItemCount(edge'[i])
       /\ \A r \in llm' \ llm : r.slot = i => r.idx = SentBy(i) + 1]_vars

\* C20 witness: the endpoint refused the first item of a batch of two and the
\* batch has answered after two requests
RefusedItemNotRetriedSeen ==
  \E i \in AnsweredBatches :
    /\ Len(edge[i].items) = 2 /\ edge[i].sent = 2
    /\ edge[i].resps[1].kind = "status"

\* the note a pending operation is about
TargetOf(op) == IF op.kind = "create" THEN op.data[1].id ELSE op.id

\* the entries of list with another id than id, in their order
Rest(list, id) == SelectSeq(list, LAMBDA n : n.id # id)

\* C21: the successful resolution of a create, update, delete or summarizeNote
\* works on the collection as it is at that moment: it leaves every entry with
\* another id as and where the resolutions before it left it, and its own
\* effect is there afterwards, so the effects of overlapping operations on
\* different notes are all present in whatever order they resolve.
ResolutionsCompose ==
  [][\A i \in Slots :
       (Resolves(i, {"create", "update", "delete", "sumOne"}) /\ ops[i].res = "ok")
         => LET id == TargetOf(ops[i])
            IN  /\ Rest(notes', id) = Rest(notes, id)
                /\ ops[i].kind = "create" => Find(notes', id) = ops[i].data
                /\ ops[i].kind = "delete" => Find(notes', id) = Absent
                /\ (ops[i].kind \in {"update", "sumOne"} /\ Find(notes, id) # Absent)
                     => Find(notes', id) = ops[i].data]_vars

\* C21 witness: a delete and a summarizeNote of different notes of the
\* collection overlap, both confirmed by the store and about to resolve
OverlappingConfirmedSeen ==
  \E i, j \in Slots :
    /\ ops[i].kind = "delete" /\ ops[i].phase = "reply" /\ ops[i].res = "ok"
    /\ ops[j].kind = "sumOne" /\ ops[j].phase = "reply" /\ ops[j].res = "ok"
    /\ ops[i].id # ops[j].id
    /\ Find(notes, ops[i].id) # Absent /\ Find(notes, ops[j].id) # Absent

\* what an operation hands its caller when it ends in the state it is in
Outcome(i) ==
  LET op == ops[i]
  IN  IF op.kind = "fetch" THEN Absent
      ELSE IF op.kind = "delete" THEN Some(op.res = "ok")
      ELSE IF op.kind = "sumAll"
        THEN (IF edge[i].http.status = 200 THEN edge[i].http.summary ELSE Absent)
      ELSE IF op.phase = "edge" THEN Absent
      ELSE IF op.res # "ok" THEN Absent
      ELSE IF op.kind = "sumOne" THEN Some(op.summary)
      ELSE op.data

\* an answer is a summary payload or a status-500 error payload
IsPayload(http) ==
  \/ http.status = 200 /\ http.summary # Absent /\ http.error = Absent
  \/ http.status = 500 /\ http.summary = Absent /\ http.error # Absent

\* C22: every operation that ends hands its caller a value: the note, the
\* summary text or true after a success, null or false (nothing for a fetch)
\* after an error result or an exception; and an edge function answers every
\* POST with a summary payload or a status-500 error payload.
FailuresAreValues ==
  [][/\ \A i \in Slots :
          (ops[i].kind # "idle" /\ ops'[i].kind = "idle")
            => /\ ret' = Returned(ops[i].kind, Outcome(i))
               /\ (ops[i].kind \in {"create", "update", "sumOne", "sumAll"}
                     /\ ret'.val # Absent)
                    => (IF ops[i].kind = "sumAll" THEN edge[i].http.status = 200
                        ELSE ops[i].phase = "reply" /\ ops[i].res = "ok")
     /\ \A i \in Slots :
          (edge'[i].st = "done" /\ edge'[i].method = "POST")
            => IsPayload(edge'[i].http)]_vars

\* C22 witness: a completion request of a bulk summarize threw and the edge
\* function has answered the pending operation with its error payload
ThrownAnsweredSeen ==
  \E i \in Slots :
    /\ ops[i].kind = "sumAll" /\ edge[i].st = "done"
    /\ edge[i].http.error = Some(Str("throw"))

\* C24: an OPTIONS request to either function is answered 200 with no body and
\* the CORS headers, whether or not the key is set, with no completion request
\* sent and no item handled; every answer carries the CORS headers.
PreflightAnswered ==
  \A i \in Slots :
    /\ edge[i].st = "done" => edge[i].http.cors
    /\ (edge[i].st # "idle" /\ edge[i].method = "OPTIONS")
         => /\ edge[i].st \in {"recv", "done"}
            /\ edge[i].sent = 0 /\ edge[i].resps = <<>> /\ edge[i].summaries = <<>>
            /\ InFlight(i) = {}
            /\ edge[i].st = "done"
                 => /\ edge[i].http.status = 200
                    /\ edge[i].http.summary = Absent /\ edge[i].http.error = Absent

\* C24 witness: with the key missing, the preflight of a batch of two items has
\* been answered
PreflightWithoutKeySeen ==
  /\ ~nvidiApiKey
  /\ \E i \in Slots : /\ edge[i].st = "done" /\ edge[i].method = "OPTIONS"
                      /\ edge[i].fn = "many" /\ Len(edge[i].items) = 2

\* the single summary of slot i failed at the summarize-note function
SummaryCallFailed(i) ==
  /\ ops[i].kind = "sumOne" /\ ops[i].phase = "edge" /\ edge[i].st = "done"
  /\ \/ ~nvidiApiKey
     \/ edge[i].resps # <<>> /\ edge[i].resps[1].kind # "ok"

\* C29: when the summarize-note call of a summarizeNote fails (key missing, the
\* completion endpoint refusing, throwing or answering a broken body), the
\* operation ends there: it returns null, sends no store update and leaves the
\* store and the collection as they are.
FailedSummaryCallEndsThere ==
  [][\A i \in Slots :
       (SummaryCallFailed(i) /\ ops'[i] # ops[i])
         => /\ ops'[i] = Idle
            /\ ret' = Returned("sumOne", Absent)
            /\ StoreRequests' = StoreRequests
            /\ db' = db /\ notes' = notes]_vars

\* C29 witness: the completion endpoint refused the request of a summarizeNote
\* of a note of the collection and the function has answered
RefusedSummarySeen ==
  \E i \in Slots :
    /\ SummaryCallFailed(i) /\ nvidiApiKey
    /\ edge[i].resps[1].kind = "status"
    /\ Find(notes, ops[i].id) # Absent

\* C23: the collection is ordered by created_at, latest first.
OrderedByCreatedAt ==
  \A k \in 1..(Len(notes) - 1) : notes[k].created_at >= notes[k + 1].created_at

\* C25: the collection holds at most one entry per note id.
OneEntryPerId ==
  \A k, l \in 1..Len(notes) : notes[k].id = notes[l].id => k = l

\* C26: every note of the collection is owned by the active user.
OwnedByActiveUser ==
  user # None => \A k \in 1..Len(notes) : notes[k].user_id = user

\* a full fetch of the active session is outstanding
FetchOutstanding ==
  user # None /\ \E i \in Slots : ops[i].kind = "fetch" /\ ops[i].uid = user

\* C28: the loading flag is true exactly while a full fetch of the active
\* session is outstanding.
LoadingWhileFetching == loading = FetchOutstanding

\* the store has just accepted the patch of slot i
Patched(i) ==
  /\ ops[i].kind \in {"update", "sumOne"} /\ ops[i].phase = "store"
  /\ ops'[i].kind = ops[i].kind /\ ops'[i].phase = "reply" /\ ops'[i].res = "ok"

\* C30: the store's handling of an update changes title, content and
\* updated_at of the record and nothing else, the one of a summary changes
\* summary and updated_at and nothing else; so a record both were applied to,
\* in either order, has the title and content of the update and the summary
\* of the summarizeNote, and id, user_id and created_at as before.
PatchesDisjoint ==
  [][\A i \in Slots :
       Patched(i)
         => LET old == CHOOSE r \in db : r.id = ops[i].id
                new == ops'[i].data[1]
            IN  /\ db' = (db \ {old}) \cup {new}
                /\ new.id = old.id /\ new.user_id = old.user_id
                /\ new.created_at = old.created_at /\ new.file_name = old.file_name
                /\ IF ops[i].kind = "update"
                     THEN /\ new.title = ops[i].title /\ new.content = ops[i].content
                          /\ new.summary = old.summary
                     ELSE /\ new.summary = Some(ops[i].summary)
                          /\ new.title = old.title /\ new.content = old.content]_vars

\* C30 witness: an update and a summarizeNote of the same note overlap, the
\* store has applied the summary first and the update after it, and the record
\* carries the title of the one and the summary of the other
BothPatchesAppliedSeen ==
  \E i, j \in Slots :
    /\ ops[i].kind = "update" /\ ops[i].phase = "reply" /\ ops[i].res = "ok"
    /\ ops[j].kind = "sumOne" /\ ops[j].phase = "reply" /\ ops[j].res = "ok"
    /\ ops[i].id = ops[j].id
    /\ ops[i].data[1].title = ops[i].title
    /\ ops[i].data[1].summary = Some(ops[j].summary)
    /\ ops[i].data[1] \in db

\* C27: the selected note is null or a note whose id is in the collection.
SelectionInCollection ==
  selectedNote = Absent \/ Find(notes, selectedNote[1].id) # Absent

====
